---- MODULE Spec2Model ----
(***************************************************************************)
(* viewbinding (src/main.c): scans a directory for .ui files, collects the *)
(* class/id pairs of <object> elements and the handler names of <signal>   *)
(* elements while GMarkup parses each file, and renders one header per     *)
(* file.                                                                   *)
(*                                                                         *)
(* C strings are TLA+ strings; a gchar* that may be NULL is a record       *)
(* [ptr, str].  A text buffer is the sequence of its '\n'-terminated       *)
(* lines.  A GList / GArray accumulator is a sequence, NULL being <<>>.    *)
(***************************************************************************)
EXTENDS Integers, Sequences, FiniteSets, TLC

(***************************************************************************)
(* Bounds of the model.                                                    *)
(***************************************************************************)
\* directory entries read in one run (Spec)
MaxFiles == 2
\* element-open events of one document in a whole run (Spec)
MaxElems == 2
\* element-open events of the document in a one-file run (SpecFile)
MaxDocLen == 3
\* characters of a file name's stem (SpecNorm)
MaxNameLen == 3

(***************************************************************************)
(* Characters and the glib string helpers the program calls.               *)
(***************************************************************************)
\* printable ASCII in two runs: codes 32..95 and codes 97..126 (code 96,
\* the backquote, has no TLA+ string literal and is left out)
ASCII_32 == " !\"#$%&'()*+,-./0123456789:;<=>?@ABCDEFGHIJKLMNOPQRSTUVWXYZ[\\]^_"

ASCII_97 == "abcdefghijklmnopqrstuvwxyz{|}~"

Char(s, i) == SubSeq(s, i, i)

CharSet ==
    {Char(ASCII_32, i) : i \in 1..Len(ASCII_32)}
        \cup {Char(ASCII_97, i) : i \in 1..Len(ASCII_97)}

\* the character codes, tabulated once
OrdTable ==
    [c \in CharSet |->
        IF \E i \in 1..Len(ASCII_32) : Char(ASCII_32, i) = c
        THEN 31 + (CHOOSE i \in 1..Len(ASCII_32) : Char(ASCII_32, i) = c)
        ELSE 96 + (CHOOSE i \in 1..Len(ASCII_97) : Char(ASCII_97, i) = c)]

Ord(c) == OrdTable[c]

Chr(n) == IF n <= 95 THEN Char(ASCII_32, n - 31) ELSE Char(ASCII_97, n - 96)

g_ascii_islower(c) == c # "" /\ LET n == Ord(c) IN n >= Ord("a") /\ n <= Ord("z")

g_ascii_isupper(c) == c # "" /\ LET n == Ord(c) IN n >= Ord("A") /\ n <= Ord("Z")

g_ascii_toupper(c) == IF g_ascii_islower(c) THEN Chr(Ord(c) - Ord("a") + Ord("A")) ELSE c

g_ascii_tolower(c) == IF g_ascii_isupper(c) THEN Chr(Ord(c) - Ord("A") + Ord("a")) ELSE c

RECURSIVE g_string_ascii_down(_)
g_string_ascii_down(s) ==
    IF s = "" THEN ""
    ELSE g_ascii_tolower(Char(s, 1)) \o g_string_ascii_down(Tail(s))

\* g_string_replace(s, find, replace, 0) for a one-character find
RECURSIVE g_string_replace(_, _, _)
g_string_replace(s, find, replace) ==
    IF s = "" THEN ""
    ELSE (IF Char(s, 1) = find THEN replace ELSE Char(s, 1))
            \o g_string_replace(Tail(s), find, replace)

\* g_strrstr(s, c) for a one-character needle: the index of its last
\* occurrence, 0 for NULL
g_strrstr(s, c) ==
    LET at == {i \in 1..Len(s) : Char(s, i) = c}
    IN  IF at = {} THEN 0 ELSE CHOOSE i \in at : \A j \in at : j <= i

g_strndup(s, n) == SubSeq(s, 1, n)

g_str_has_suffix(s, suffix) ==
    Len(s) >= Len(suffix) /\ SubSeq(s, Len(s) - Len(suffix) + 1, Len(s)) = suffix

\* g_strsplit_set(s, delim, -1) for a one-character delimiter set: the
\* tokens between delimiters, empty ones kept; no token at all for ""
RECURSIVE SplitFrom(_, _, _)
SplitFrom(s, delim, cur) ==
    IF s = "" THEN <<cur>>
    ELSE IF Char(s, 1) = delim THEN <<cur>> \o SplitFrom(Tail(s), delim, "")
    ELSE SplitFrom(Tail(s), delim, cur \o Char(s, 1))

g_strsplit_set(s, delim) == IF s = "" THEN <<>> ELSE SplitFrom(s, delim, "")

\* A guint is kept as its two 16-bit halves [hi, lo], so that 32-bit
\* wrap-around is computed exactly.
MulAdd32(h, k, c) ==
    LET lo == h.lo * k + c
    IN  [hi |-> (h.hi * k + (lo \div 65536)) % 65536, lo |-> lo % 65536]

Mod32(h, m) == ((h.hi % m) * (65536 % m) + (h.lo % m)) % m

\* g_str_hash: djb2 over the bytes (h = h * 33 + c from 5381), in 32 bits
RECURSIVE StrHashFrom(_, _)
StrHashFrom(s, h) ==
    IF s = "" THEN h
    ELSE StrHashFrom(Tail(s), MulAdd32(h, 33, Ord(Char(s, 1))))

g_str_hash(s) == StrHashFrom(s, [hi |-> 0, lo |-> 5381])

(***************************************************************************)
(* gchar pointers                                                          *)
(***************************************************************************)
NULL == [ptr |-> FALSE, str |-> ""]

g_strdup(s) == [ptr |-> TRUE, str |-> s]

(***************************************************************************)
(* GHashTable as read_and_parse_xml_file uses it: g_hash_table_new_full    *)
(* gives 8 slots and modulus 7; a key goes to slot (hash * 11) % 7, probed *)
(* onward while the slot holds another key; g_hash_table_foreach visits    *)
(* the slots in ascending order.  keys[i] is slot i - 1, "" an empty slot. *)
(* The value stored with a key is the address of the static parser whose   *)
(* element_name is that key.                                               *)
(***************************************************************************)
NoMap == [live |-> FALSE, keys |-> <<>>]

g_hash_table_new_full == [live |-> TRUE, keys |-> [i \in 1..8 |-> ""]]

\* mutant: the slot is the hash's low bits (hash & mask)
g_hash_table_hash_to_index_mask(key) == Mod32(g_str_hash(key), 8)

g_hash_table_hash_to_index(key) == Mod32(MulAdd32(g_str_hash(key), 11, 0), 7)

RECURSIVE LookupNode(_, _, _, _)
LookupNode(keys, key, node_index, step) ==
    IF keys[node_index + 1] = "" \/ keys[node_index + 1] = key
    THEN node_index
    ELSE LookupNode(keys, key, (node_index + step + 1) % 8, step + 1)

g_hash_table_insert(table, key) ==
    [table EXCEPT
        !.keys[LookupNode(table.keys, key, g_hash_table_hash_to_index(key), 0) + 1] = key]

\* the key found ("" for NULL)
g_hash_table_lookup(table, key) ==
    table.keys[LookupNode(table.keys, key, g_hash_table_hash_to_index(key), 0) + 1]

RECURSIVE KeysFrom(_, _)
KeysFrom(keys, i) ==
    IF i > Len(keys) THEN <<>>
    ELSE (IF keys[i] # "" THEN <<keys[i]>> ELSE <<>>) \o KeysFrom(keys, i + 1)

\* the keys in the order g_hash_table_foreach visits them
g_hash_table_foreach(table) == KeysFrom(table.keys, 1)

(***************************************************************************)
(* The attribute collectors.                                               *)
(***************************************************************************)
RECURSIVE ObjectCursor(_, _, _, _, _)
ObjectCursor(attribute_names, attribute_values, i, class_value, id_value) ==
    IF i > Len(attribute_names)
    THEN [class_value |-> class_value, id_value |-> id_value]
    ELSE IF attribute_names[i] = "class"
    THEN ObjectCursor(attribute_names, attribute_values, i + 1,
                      g_strdup(attribute_values[i]), id_value)
    ELSE IF attribute_names[i] = "id"
    THEN ObjectCursor(attribute_names, attribute_values, i + 1,
                      class_value, g_strdup(attribute_values[i]))
    ELSE ObjectCursor(attribute_names, attribute_values, i + 1, class_value, id_value)

\* mutant: g_list_prepend in place of g_list_append
handle_object_attribute_prepend(attribute_names, attribute_values, class_id_list) ==
    LET v == ObjectCursor(attribute_names, attribute_values, 1, NULL, NULL)
    IN  IF v.class_value.ptr /\ v.id_value.ptr
        THEN <<[class |-> v.class_value.str, id |-> v.id_value.str]>> \o class_id_list
        ELSE class_id_list

\* the GList after the call
handle_object_attribute(attribute_names, attribute_values, class_id_list) ==
    LET v == ObjectCursor(attribute_names, attribute_values, 1, NULL, NULL)
    IN  IF v.class_value.ptr /\ v.id_value.ptr
        THEN Append(class_id_list,
                    [class |-> v.class_value.str, id |-> v.id_value.str])
        ELSE class_id_list

RECURSIVE SignalCursor(_, _, _)
SignalCursor(attribute_names, attribute_values, i) ==
    IF i > Len(attribute_names) THEN NULL
    ELSE IF attribute_names[i] = "handler" THEN g_strdup(attribute_values[i])
    ELSE SignalCursor(attribute_names, attribute_values, i + 1)

\* mutant: the loop without its break, so that the last handler is kept
RECURSIVE SignalCursorNoBreak(_, _, _, _)
SignalCursorNoBreak(attribute_names, attribute_values, i, signal_value) ==
    IF i > Len(attribute_names) THEN signal_value
    ELSE SignalCursorNoBreak(attribute_names, attribute_values, i + 1,
            IF attribute_names[i] = "handler"
            THEN g_strdup(attribute_values[i]) ELSE signal_value)

handle_signal_attribute_no_break(attribute_names, attribute_values, signal_array) ==
    LET signal_value == SignalCursorNoBreak(attribute_names, attribute_values, 1, NULL)
    IN  IF signal_value.ptr
        THEN Append(signal_array, signal_value.str)
        ELSE signal_array

\* the GArray after the call
handle_signal_attribute(attribute_names, attribute_values, signal_array) ==
    LET signal_value == SignalCursor(attribute_names, attribute_values, 1)
    IN  IF signal_value.ptr
        THEN Append(signal_array, signal_value.str)
        ELSE signal_array

(***************************************************************************)
(* The renderer.                                                           *)
(***************************************************************************)
\* mutant: the base name without g_string_ascii_down
base_string_no_down(file_name) ==
    LET dot == g_strrstr(file_name, ".")
        base_name == g_strndup(file_name, dot - 1)
    IN  g_string_replace(base_name, "-", "_")

base_string(file_name) ==
    LET dot == g_strrstr(file_name, ".")
        base_name == g_strndup(file_name, dot - 1)
    IN  g_string_ascii_down(g_string_replace(base_name, "-", "_"))

output_file_name(file_name) == base_string(file_name) \o "_viewbinding.h"

RECURSIVE NameParts(_, _)
NameParts(sp, i) ==
    IF i > Len(sp) THEN ""
    ELSE (IF sp[i] # ""
          THEN g_ascii_toupper(Char(sp[i], 1)) \o Tail(sp[i])
          ELSE "")
         \o NameParts(sp, i + 1)

\* base_name in PascalCase
name_builder(base_name) == NameParts(g_strsplit_set(base_name, "_"), 1)

StructFields(class_id_list) ==
    [i \in 1..Len(class_id_list) |->
        "\t" \o class_id_list[i].class \o " *" \o class_id_list[i].id \o ";"]

BindLines(macro, struct_name, class_id_list) ==
    [i \in 1..Len(class_id_list) |->
        "\t\t" \o macro \o "(widget_class, WidgetType, " \o struct_name
            \o "Binding, binding_name, " \o class_id_list[i].id \o ") \\"]

\* mutant: no early return on an empty list
generate_object_code_no_return(buffer, base_name, class_id_list) ==
    buffer
    \o <<"", "/* Class Bindings */", "typedef struct {">>
    \o StructFields(class_id_list)
    \o <<"} " \o name_builder(base_name) \o "Binding;",
         "",
         "#define " \o base_name
            \o "_view_binding(widget_class, WidgetType, binding_name) \\",
         "\tdo { \\">>
    \o BindLines("view_binding_full", name_builder(base_name), class_id_list)
    \o <<"\t} while(0) ",
         "",
         "#define " \o base_name
            \o "_view_binding_private(widget_class, WidgetType, binding_name) \\",
         "\tdo { \\">>
    \o BindLines("view_binding_full_private", name_builder(base_name), class_id_list)
    \o <<"\t} while(0) ">>

\* the buffer after the call
generate_object_code(buffer, base_name, class_id_list) ==
    IF Len(class_id_list) = 0 THEN buffer
    ELSE buffer
         \o <<"", "/* Class Bindings */", "typedef struct {">>
         \o StructFields(class_id_list)
         \o <<"} " \o name_builder(base_name) \o "Binding;",
              "",
              "#define " \o base_name
                 \o "_view_binding(widget_class, WidgetType, binding_name) \\",
              "\tdo { \\">>
         \o BindLines("view_binding_full", name_builder(base_name), class_id_list)
         \o <<"\t} while(0) ",
              "",
              "#define " \o base_name
                 \o "_view_binding_private(widget_class, WidgetType, binding_name) \\",
              "\tdo { \\">>
         \o BindLines("view_binding_full_private", name_builder(base_name),
                      class_id_list)
         \o <<"\t} while(0) ">>

CallbackLines(signal_array) ==
    [i \in 1..Len(signal_array) |->
        "\t\tgtk_widget_class_bind_template_callback(GTK_WIDGET_CLASS(widget_class), "
            \o signal_array[i] \o "); \\"]

\* the buffer after the call
generate_signal_code(buffer, base_name, signal_array) ==
    IF Len(signal_array) = 0 THEN buffer
    ELSE buffer
         \o <<"", "/* Signal Handlers */",
              "#define " \o base_name \o "_view_binding_callback(widget_class) \\",
              "\tdo { \\">>
         \o CallbackLines(signal_array)
         \o <<"\t} while(0) ">>

HeaderComment ==
    <<"/* Generated By View Binding Code Generator, Do Not Edit By Hand */", "">>

RECURSIVE g_ascii_strup(_)
g_ascii_strup(s) ==
    IF s = "" THEN ""
    ELSE g_ascii_toupper(Char(s, 1)) \o g_ascii_strup(Tail(s))

\* mutant: the application id upper-cased in the guard token
GuardToken_strup(application_id, base_name) ==
    g_ascii_strup(application_id) \o "_" \o base_name \o "_VIEW_BINDING_H_"

GuardToken(application_id, base_name) ==
    application_id \o "_" \o base_name \o "_VIEW_BINDING_H_"

HeaderGuard(application_id, base_name) ==
    <<"#ifndef " \o GuardToken(application_id, base_name),
      "#define " \o GuardToken(application_id, base_name),
      "">>

InsideUtils ==
    <<"#ifndef VIEW_BINDING_INSIDE_UTILS",
      "#define VIEW_BINDING_INSIDE_UTILS",
      "",
      "#define view_binding_full(widget_class, WidgetType, BindingType, binding_name, widget_name) \\",
      "\tgtk_widget_class_bind_template_child_full(GTK_WIDGET_CLASS(widget_class), #widget_name, FALSE, G_STRUCT_OFFSET(WidgetType, binding_name) + G_STRUCT_OFFSET(BindingType, widget_name));",
      "",
      "#define view_binding_full_private(widget_class, WidgetType, BindingType, binding_name, widget_name) \\",
      "\tgtk_widget_class_bind_template_child_full(GTK_WIDGET_CLASS(widget_class), #widget_name, FALSE, G_PRIVATE_OFFSET(WidgetType, binding_name) + G_STRUCT_OFFSET(BindingType, widget_name));",
      "",
      "#endif /* VIEW_BINDING_INSIDE_UTILS */">>

EndHeaderGuard(application_id, base_name) ==
    <<"", "#endif /* " \o GuardToken(application_id, base_name) \o " */">>

(***************************************************************************)
(* Program state.                                                          *)
(*   application_id           the --application-id option                  *)
(*   pc                       "main": in main's while loop, at             *)
(*                            g_dir_read_name; "parse": inside             *)
(*                            g_markup_parse_context_parse; "done": main   *)
(*                            has returned                                 *)
(*   listed                   the directory entries g_dir_read_name has    *)
(*                            returned                                     *)
(*   file_name                the argument of the current (or the last)    *)
(*                            read_and_parse_xml_file call                 *)
(*   doc                      the element-open events of that file so far  *)
(*   tag_stack                the parse context's count of open elements   *)
(*   view_binding_parser_map  the local hash table of                      *)
(*                            read_and_parse_xml_file                      *)
(*   class_parser,                                                         *)
(*   signal_parser            the two static ViewBindingParser structs     *)
(*   output_buffer            the static GString (NULL between calls)      *)
(*   out_dir                  the files of the output directory            *)
(*   stderr                   the diagnostics printed, <<message, file>>   *)
(*   status                   how the last read_and_parse_xml_file ended   *)
(*   exit_code                main's return value, -1 while running        *)
(*   derived                  the names derived from file_name (SpecNorm)  *)
(***************************************************************************)
VARIABLES application_id, pc, listed, file_name, doc, tag_stack,
          view_binding_parser_map, class_parser, signal_parser,
          output_buffer, out_dir, stderr, status, exit_code, derived

vars == <<application_id, pc, listed, file_name, doc, tag_stack,
          view_binding_parser_map, class_parser, signal_parser,
          output_buffer, out_dir, stderr, status, exit_code, derived>>

(***************************************************************************)
(* Inputs.                                                                 *)
(***************************************************************************)
ApplicationIds == {"app_example_Demo"}

\* the entries a directory may hold
DirNames == {"window.ui", "My-Window.ui", "notes.txt"}

Element(element_name, attribute_names, attribute_values) ==
    [element_name |-> element_name,
     attribute_names |-> attribute_names,
     attribute_values |-> attribute_values]

TheButton == Element("object", <<"class", "id">>, <<"GtkButton", "submit_btn">>)

TheSignal == Element("signal", <<"handler">>, <<"on_submit_clicked">>)

TheDuplicate ==
    Element("object", <<"class", "id", "class", "id">>,
            <<"GtkEntry", "c", "GtkGrid", "d">>)

\* the element-open events a document of a whole run is made of
RunElements == {TheButton, TheSignal, Element("child", <<>>, <<>>)}

\* the element-open events a document of a one-file run is made of
Elements ==
    RunElements \cup
    { Element("object", <<"id", "class">>, <<"b", "GtkLabel">>),
      Element("object", <<"class">>, <<"GtkBox">>),
      Element("object", <<"class", "id">>, <<"", "e">>),
      TheDuplicate,
      Element("signal", <<"name">>, <<"clicked">>),
      Element("signal", <<"name", "handler", "handler">>,
              <<"clicked", "on_first", "on_second">>) }

(***************************************************************************)
(* read_and_parse_xml_file and its callbacks.                              *)
(***************************************************************************)
ClassParserInit ==
    [element_name |-> "object",
     handle_attribute |-> "handle_object_attribute",
     generate_code |-> "generate_object_code",
     user_data |-> <<>>]

SignalParserInit ==
    [element_name |-> "signal",
     handle_attribute |-> "handle_signal_attribute",
     generate_code |-> "generate_signal_code",
     user_data |-> <<>>]

\* the map as lines 222-228 build it
NewParserMap ==
    g_hash_table_insert(
        g_hash_table_insert(g_hash_table_new_full, class_parser.element_name),
        signal_parser.element_name)

\* the static parser a key of the map points to
ParserOf(key) == IF key = class_parser.element_name THEN class_parser ELSE signal_parser

\* the parser after start() has run for the element
start(table, element, parser) ==
    IF g_hash_table_lookup(table, element.element_name) = parser.element_name
    THEN [parser EXCEPT !.user_data =
            IF parser.handle_attribute = "handle_object_attribute"
            THEN handle_object_attribute(element.attribute_names,
                                         element.attribute_values, @)
            ELSE handle_signal_attribute(element.attribute_names,
                                         element.attribute_values, @)]
    ELSE parser

\* mutant: user_data is neither freed nor reset
destroy_view_binding_parser_no_reset(parser) == parser

destroy_view_binding_parser(parser) == [parser EXCEPT !.user_data = <<>>]

\* the parser after the g_autoptr(GHashTable) cleanup of the map
g_hash_table_unref(table, parser) ==
    IF table.live /\ \E i \in 1..Len(table.keys) : table.keys[i] = parser.element_name
    THEN destroy_view_binding_parser(parser)
    ELSE parser

\* the buffer after the call
hash_table_for_each(buffer, parser, base_name) ==
    IF parser.generate_code = "generate_object_code"
    THEN generate_object_code(buffer, base_name, parser.user_data)
    ELSE generate_signal_code(buffer, base_name, parser.user_data)

RECURSIVE ForEach(_, _, _, _)
ForEach(keys, i, buffer, base_name) ==
    IF i > Len(keys) THEN buffer
    ELSE ForEach(keys, i + 1,
                 hash_table_for_each(buffer, ParserOf(keys[i]), base_name),
                 base_name)

\* the text generate_code hands to g_file_set_contents
generate_code(table, name) ==
    LET base == base_string(name)
    IN  ForEach(g_hash_table_foreach(table), 1,
                HeaderComment \o HeaderGuard(application_id, base) \o InsideUtils,
                base)
            \o EndHeaderGuard(application_id, base)

NoFile == <<>>

UiNames == {n \in DirNames : g_str_has_suffix(n, ".ui")}

OutNames == {output_file_name(n) : n \in UiNames}

Init ==
    /\ application_id \in ApplicationIds
    /\ pc = "main"
    /\ listed = {}
    /\ file_name = ""
    /\ doc = <<>>
    /\ tag_stack = 0
    /\ view_binding_parser_map = NoMap
    /\ class_parser = ClassParserInit
    /\ signal_parser = SignalParserInit
    /\ output_buffer = NULL
    /\ out_dir = [n \in OutNames |-> NoFile]
    /\ stderr = <<>>
    /\ status = "none"
    /\ exit_code = -1
    /\ derived = [base_string |-> "", struct_name |-> ""]

\* main, lines 125-128: an entry without the .ui suffix is passed over
DirSkip(maxFiles) ==
    /\ pc = "main"
    /\ Cardinality(listed) < maxFiles
    /\ \E name \in DirNames \ listed :
        /\ ~g_str_has_suffix(name, ".ui")
        /\ listed' = listed \cup {name}
    /\ UNCHANGED <<application_id, pc, file_name, doc, tag_stack,
                   view_binding_parser_map, class_parser, signal_parser,
                   output_buffer, out_dir, stderr, status, exit_code, derived>>

\* read_and_parse_xml_file, lines 213-220: g_file_get_contents fails
ReadError(maxFiles) ==
    /\ pc = "main"
    /\ Cardinality(listed) < maxFiles
    /\ \E name \in DirNames \ listed :
        /\ g_str_has_suffix(name, ".ui")
        /\ listed' = listed \cup {name}
        /\ file_name' = name
        /\ stderr' = Append(stderr, <<"Error reading file", name>>)
    /\ doc' = <<>>
    /\ tag_stack' = 0
    /\ status' = "read_error"
    /\ class_parser' = g_hash_table_unref(view_binding_parser_map, class_parser)
    /\ signal_parser' = g_hash_table_unref(view_binding_parser_map, signal_parser)
    /\ UNCHANGED <<application_id, pc, view_binding_parser_map, output_buffer,
                   out_dir, exit_code, derived>>

\* read_and_parse_xml_file, lines 213-233: the file is read, the map and the
\* parse context are built, and the parse begins
BeginParse(maxFiles) ==
    /\ pc = "main"
    /\ Cardinality(listed) < maxFiles
    /\ \E name \in DirNames \ listed :
        /\ g_str_has_suffix(name, ".ui")
        /\ listed' = listed \cup {name}
        /\ file_name' = name
    /\ view_binding_parser_map' = NewParserMap
    /\ doc' = <<>>
    /\ tag_stack' = 0
    /\ status' = "parsing"
    /\ pc' = "parse"
    /\ UNCHANGED <<application_id, class_parser, signal_parser, output_buffer,
                   out_dir, stderr, exit_code, derived>>

\* start, lines 247-257: the parser reports an element-open event; the
\* element is either empty (<x/>) or stays open
StartElement(elements, maxElems) ==
    /\ pc = "parse"
    /\ Len(doc) < maxElems
    /\ \E element \in elements, empty \in BOOLEAN :
        /\ class_parser' = start(view_binding_parser_map, element, class_parser)
        /\ signal_parser' = start(view_binding_parser_map, element, signal_parser)
        /\ doc' = Append(doc, element)
        /\ tag_stack' = IF empty THEN tag_stack ELSE tag_stack + 1
    /\ UNCHANGED <<application_id, pc, listed, file_name,
                   view_binding_parser_map, output_buffer, out_dir, stderr,
                   status, exit_code, derived>>

\* the parser reads the end tag of the innermost open element (xml_parser
\* has no end_element callback)
EndElement ==
    /\ pc = "parse"
    /\ tag_stack > 0
    /\ tag_stack' = tag_stack - 1
    /\ UNCHANGED <<application_id, pc, listed, file_name, doc,
                   view_binding_parser_map, class_parser, signal_parser,
                   output_buffer, out_dir, stderr, status, exit_code, derived>>

\* read_and_parse_xml_file, lines 233-242: g_markup_parse_context_parse
\* meets invalid markup and returns FALSE
ParseError ==
    /\ pc = "parse"
    /\ stderr' = Append(stderr, <<"Error parsing XML file", file_name>>)
    /\ status' = "parse_error"
    /\ class_parser' = g_hash_table_unref(view_binding_parser_map, class_parser)
    /\ signal_parser' = g_hash_table_unref(view_binding_parser_map, signal_parser)
    /\ view_binding_parser_map' = NoMap
    /\ pc' = "main"
    /\ UNCHANGED <<application_id, listed, file_name, doc, tag_stack,
                   output_buffer, out_dir, exit_code, derived>>

\* read_and_parse_xml_file, lines 233-245, and generate_code: the text
\* ends, g_markup_parse_context_parse returns TRUE (the code never calls
\* g_markup_parse_context_end_parse, so elements may still be open), the
\* header is rendered and written, and the locals are cleaned up
ParseDone ==
    /\ pc = "parse"
    /\ \E written \in BOOLEAN :
        IF written
        THEN /\ out_dir' = [out_dir EXCEPT ![output_file_name(file_name)] =
                               generate_code(view_binding_parser_map, file_name)]
             /\ stderr' = stderr
             /\ status' = "written"
        ELSE /\ out_dir' = out_dir
             /\ stderr' = Append(stderr, <<"Error writing to file",
                                           output_file_name(file_name)>>)
             /\ status' = "write_error"
    /\ output_buffer' = NULL
    /\ class_parser' = g_hash_table_unref(view_binding_parser_map, class_parser)
    /\ signal_parser' = g_hash_table_unref(view_binding_parser_map, signal_parser)
    /\ view_binding_parser_map' = NoMap
    /\ pc' = "main"
    /\ UNCHANGED <<application_id, listed, file_name, doc, tag_stack,
                   exit_code, derived>>

\* main, lines 125-139: g_dir_read_name returns NULL
DirEnd ==
    /\ pc = "main"
    /\ pc' = "done"
    /\ exit_code' = 0
    /\ UNCHANGED <<application_id, listed, file_name, doc, tag_stack,
                   view_binding_parser_map, class_parser, signal_parser,
                   output_buffer, out_dir, stderr, status, derived>>

\* a whole run over a directory
Next ==
    \/ DirSkip(MaxFiles)
    \/ ReadError(MaxFiles)
    \/ BeginParse(MaxFiles)
    \/ StartElement(RunElements, MaxElems)
    \/ EndElement
    \/ ParseError
    \/ ParseDone
    \/ DirEnd

Spec == Init /\ [][Next]_vars

\* a run over a directory of one entry, its document drawn from Elements
NextFile ==
    \/ DirSkip(1)
    \/ ReadError(1)
    \/ BeginParse(1)
    \/ StartElement(Elements, MaxDocLen)
    \/ EndElement
    \/ ParseError
    \/ ParseDone
    \/ DirEnd

SpecFile == Init /\ [][NextFile]_vars

(***************************************************************************)
(* The name derivations of generate_code and generate_object_code on their *)
(* own, over every file name main can pass: a stem over NormAlphabet       *)
(* followed by the .ui suffix.                                             *)
(***************************************************************************)
NormAlphabet == {"a", "W", "-", "_", ".", "1"}

RECURSIVE Stems(_)
Stems(n) ==
    IF n = 0 THEN {""}
    ELSE Stems(n - 1) \cup {s \o c : s \in Stems(n - 1), c \in NormAlphabet}

NormNames == {s \o ".ui" : s \in Stems(MaxNameLen)} \cup UiNames

InitNorm ==
    /\ application_id \in ApplicationIds
    /\ pc = "norm"
    /\ listed = {}
    /\ file_name \in NormNames
    /\ doc = <<>>
    /\ tag_stack = 0
    /\ view_binding_parser_map = NoMap
    /\ class_parser = ClassParserInit
    /\ signal_parser = SignalParserInit
    /\ output_buffer = NULL
    /\ out_dir = [n \in OutNames |-> NoFile]
    /\ stderr = <<>>
    /\ status = "none"
    /\ exit_code = -1
    /\ derived = [base_string |-> "", struct_name |-> ""]

\* generate_code, lines 360-366
DeriveBaseName ==
    /\ pc = "norm"
    /\ derived' = [derived EXCEPT !.base_string = base_string(file_name)]
    /\ pc' = "norm_struct"
    /\ UNCHANGED <<application_id, listed, file_name, doc, tag_stack,
                   view_binding_parser_map, class_parser, signal_parser,
                   output_buffer, out_dir, stderr, status, exit_code>>

\* generate_object_code, lines 443-468
DeriveStructName ==
    /\ pc = "norm_struct"
    /\ derived' = [derived EXCEPT
                     !.struct_name = name_builder(derived.base_string) \o "Binding"]
    /\ pc' = "norm_done"
    /\ UNCHANGED <<application_id, listed, file_name, doc, tag_stack,
                   view_binding_parser_map, class_parser, signal_parser,
                   output_buffer, out_dir, stderr, status, exit_code>>

NextNorm == DeriveBaseName \/ DeriveStructName

SpecNorm == InitNorm /\ [][NextNorm]_vars

(***************************************************************************)
(* Reading a document and a rendered header, for the properties below.     *)
(***************************************************************************)
Min(S) == CHOOSE i \in S : \A j \in S : i <= j

Max(S) == CHOOSE i \in S : \A j \in S : j <= i

HasPrefix(s, p) == Len(s) >= Len(p) /\ SubSeq(s, 1, Len(p)) = p

HasSuffix(s, p) == Len(s) >= Len(p) /\ SubSeq(s, Len(s) - Len(p) + 1, Len(s)) = p

\* the index of the first line equal to l, 0 when there is none
IndexOfLine(lines, l) ==
    LET at == {i \in 1..Len(lines) : lines[i] = l}
    IN  IF at = {} THEN 0 ELSE Min(at)

\* the index of the first line ending in p, 0 when there is none
IndexOfSuffix(lines, p) ==
    LET at == {i \in 1..Len(lines) : HasSuffix(lines[i], p)}
    IN  IF at = {} THEN 0 ELSE Min(at)

LinesWithPrefix(lines, p) == SelectSeq(lines, LAMBDA l : HasPrefix(l, p))

\* the lines between "typedef struct {" and the "} <Name>Binding;" line
FieldLines(lines) ==
    LET open == IndexOfLine(lines, "typedef struct {")
        close == Min({i \in open + 1..Len(lines) : HasPrefix(lines[i], "} ")})
    IN  IF open = 0 THEN <<>> ELSE SubSeq(lines, open + 1, close - 1)

BindLinesOf(lines) == LinesWithPrefix(lines, "\t\tview_binding_full(")

BindPrivateLinesOf(lines) == LinesWithPrefix(lines, "\t\tview_binding_full_private(")

CallbackLinesOf(lines) ==
    LinesWithPrefix(lines, "\t\tgtk_widget_class_bind_template_callback(")

AttrPositions(element, k) ==
    {i \in 1..Len(element.attribute_names) : element.attribute_names[i] = k}

HasAttribute(element, k) == AttrPositions(element, k) # {}

FirstValue(element, k) == element.attribute_values[Min(AttrPositions(element, k))]

LastValue(element, k) == element.attribute_values[Max(AttrPositions(element, k))]

\* the object elements of a document that carry both a class and an id
BoundObjects(d) ==
    SelectSeq(d, LAMBDA e : /\ e.element_name = "object"
                            /\ HasAttribute(e, "class")
                            /\ HasAttribute(e, "id"))

\* those of them whose class and id values are all non-empty
NonEmptyObjects(d) ==
    SelectSeq(BoundObjects(d),
              LAMBDA e : \A i \in AttrPositions(e, "class") \cup AttrPositions(e, "id") :
                            e.attribute_values[i] # "")

\* the signal elements of a document that carry a handler
HandledSignals(d) ==
    SelectSeq(d, LAMBDA e : e.element_name = "signal" /\ HasAttribute(e, "handler"))

\* read_and_parse_xml_file has returned for file_name
Finished == pc \in {"main", "done"} /\ status \notin {"none", "parsing"}

Written == Finished /\ status = "written"

\* the header written for file_name
Output == out_dir[output_file_name(file_name)]

(***************************************************************************)
(* C1.  Isolation between files: whenever a file's scan starts, and        *)
(* whenever read_and_parse_xml_file has returned (after a read failure, a  *)
(* parse failure, a write failure or a success), both accumulators are     *)
(* empty; during a scan they hold exactly what the elements of this file   *)
(* so far contribute; and a written header has one field line per          *)
(* class/id object and one callback line per handler of its own document.  *)
(***************************************************************************)
C1_Isolation ==
    /\ (pc = "parse" /\ doc = <<>>) =>
            class_parser.user_data = <<>> /\ signal_parser.user_data = <<>>
    /\ pc \in {"main", "done"} =>
            class_parser.user_data = <<>> /\ signal_parser.user_data = <<>>
    /\ pc = "parse" =>
            /\ Len(class_parser.user_data) = Len(BoundObjects(doc))
            /\ Len(signal_parser.user_data) = Len(HandledSignals(doc))
    /\ Written =>
            /\ FieldLines(Output) =
                 [i \in 1..Len(BoundObjects(doc)) |->
                    "\t" \o LastValue(BoundObjects(doc)[i], "class") \o " *"
                         \o LastValue(BoundObjects(doc)[i], "id") \o ";"]
            /\ Len(CallbackLinesOf(Output)) = Len(HandledSignals(doc))

\* a header without entries is written for a second file after the first
\* file's parse failed
C1_Witness ==
    /\ Written
    /\ Len(stderr) = 1
    /\ stderr[1][1] = "Error parsing XML file"
    /\ stderr[1][2] # file_name
    /\ BoundObjects(doc) = <<>>
    /\ FieldLines(Output) = <<>>
    /\ CallbackLinesOf(Output) # <<>>

(***************************************************************************)
(* C3.  A file whose markup is malformed (a parse error, or elements left  *)
(* open at the end of the document) ends in a reported parse failure and   *)
(* is not written; the run ends with exit code 0.                          *)
(***************************************************************************)
C3_MalformedIsSkipped ==
    /\ (Finished /\ status # "read_error" /\ tag_stack > 0) =>
            /\ status = "parse_error"
            /\ stderr # <<>>
            /\ stderr[Len(stderr)] = <<"Error parsing XML file", file_name>>
    /\ pc = "done" => exit_code = 0

(***************************************************************************)
(* C2.  In a written header of a file with at least one object entry and   *)
(* at least one signal entry, the object section (binding struct, bind     *)
(* macro, bind-private macro, in that order) comes before the signal       *)
(* section (callback macro), both after the shared macro block and before  *)
(* the closing guard, which is the last line.                              *)
(***************************************************************************)
C2_SectionOrder ==
    (Written /\ BoundObjects(doc) # <<>> /\ HandledSignals(doc) # <<>>) =>
        LET out == Output
            shared_end == IndexOfLine(out, "#endif /* VIEW_BINDING_INSIDE_UTILS */")
            object_start == IndexOfLine(out, "/* Class Bindings */")
            struct == IndexOfLine(out, "typedef struct {")
            bind == IndexOfSuffix(out,
                       "_view_binding(widget_class, WidgetType, binding_name) \\")
            bind_private == IndexOfSuffix(out,
                       "_view_binding_private(widget_class, WidgetType, binding_name) \\")
            signal_start == IndexOfLine(out, "/* Signal Handlers */")
            callback == IndexOfSuffix(out, "_view_binding_callback(widget_class) \\")
        IN  /\ 0 < shared_end
            /\ shared_end < object_start
            /\ object_start < struct
            /\ struct < bind
            /\ bind < bind_private
            /\ bind_private < signal_start
            /\ signal_start < callback
            /\ callback < Len(out)
            /\ HasPrefix(out[Len(out)], "#endif /* ")
            /\ HasSuffix(out[Len(out)], "_VIEW_BINDING_H_ */")

\* a header with both sections has been written
C2_Witness ==
    /\ Written
    /\ BoundObjects(doc) # <<>>
    /\ HandledSignals(doc) # <<>>
    /\ IndexOfLine(Output, "/* Class Bindings */") > 0
    /\ IndexOfLine(Output, "/* Signal Handlers */") > 0

(***************************************************************************)
(* C4.  During a scan the object accumulator holds one entry for each      *)
(* object element so far that carries both a class and an id whose values  *)
(* are non-empty, and no entry for any other element; no recorded entry    *)
(* has an empty class or id.                                               *)
(***************************************************************************)
C4_BothNonEmpty ==
    pc = "parse" =>
        /\ Len(class_parser.user_data) = Len(NonEmptyObjects(doc))
        /\ \A i \in 1..Len(class_parser.user_data) :
              class_parser.user_data[i].class # "" /\ class_parser.user_data[i].id # ""

(***************************************************************************)
(* C5.  The entry recorded for an object element holds the value of the    *)
(* first class attribute and the value of the first id attribute of the    *)
(* element.                                                                *)
(***************************************************************************)
C5_FirstOccurrence ==
    pc = "parse" =>
        class_parser.user_data =
            [i \in 1..Len(BoundObjects(doc)) |->
                [class |-> FirstValue(BoundObjects(doc)[i], "class"),
                 id |-> FirstValue(BoundObjects(doc)[i], "id")]]

(***************************************************************************)
(* C6.  window.ui holding one object (class GtkButton, id submit_btn) and  *)
(* one signal (handler on_submit_clicked), with application id             *)
(* app_example_Demo, is written to window_viewbinding.h with the struct    *)
(* WindowBinding of the single field GtkButton *submit_btn and a callback  *)
(* macro registering on_submit_clicked.  EndToEnd is the scenario,         *)
(* EndToEndBody what the header holds besides the guard.                   *)
(***************************************************************************)
EndToEnd ==
    /\ Written
    /\ application_id = "app_example_Demo"
    /\ file_name = "window.ui"
    /\ doc = <<TheButton, TheSignal>>

EndToEndBody ==
    LET out == out_dir["window_viewbinding.h"]
        struct == IndexOfLine(out, "typedef struct {")
    IN  /\ struct > 0
        /\ SubSeq(out, struct, struct + 2) =
             <<"typedef struct {", "\tGtkButton *submit_btn;", "} WindowBinding;">>
        /\ IndexOfLine(out, "#define window_view_binding_callback(widget_class) \\") > 0
        /\ CallbackLinesOf(out) =
             <<"\t\tgtk_widget_class_bind_template_callback(GTK_WIDGET_CLASS(widget_class), on_submit_clicked); \\">>

\* C6 as claimed: the guard token is APP_EXAMPLE_DEMO_window_VIEW_BINDING_H_
C6_UpperCaseGuard ==
    EndToEnd =>
        /\ EndToEndBody
        /\ out_dir["window_viewbinding.h"][3] =
              "#ifndef APP_EXAMPLE_DEMO_window_VIEW_BINDING_H_"

\* C6 as amended: the guard token is the application id as given, then
\* _window_VIEW_BINDING_H_, on the #ifndef, #define and closing #endif lines
C6_GuardAsGiven ==
    EndToEnd =>
        LET out == out_dir["window_viewbinding.h"]
        IN  /\ EndToEndBody
            /\ out[3] = "#ifndef app_example_Demo_window_VIEW_BINDING_H_"
            /\ out[4] = "#define app_example_Demo_window_VIEW_BINDING_H_"
            /\ out[Len(out)] = "#endif /* app_example_Demo_window_VIEW_BINDING_H_ */"
            /\ \A i \in 1..Len(out) :
                  out[i] # "#ifndef APP_EXAMPLE_DEMO_window_VIEW_BINDING_H_"

C6_Witness == EndToEnd /\ out_dir["window_viewbinding.h"] # NoFile

(***************************************************************************)
(* C7.  In a written header the struct field lines, the bind-macro lines   *)
(* and the bind-private-macro lines are each one line per recorded entry,  *)
(* in document order: line i is the line of the i-th object element that   *)
(* carries a class and an id.                                              *)
(***************************************************************************)
C7_DocumentOrder ==
    Written =>
        LET objects == BoundObjects(doc)
            out == Output
        IN  /\ FieldLines(out) =
                 [i \in 1..Len(objects) |->
                    "\t" \o LastValue(objects[i], "class") \o " *"
                         \o LastValue(objects[i], "id") \o ";"]
            /\ Len(BindLinesOf(out)) = Len(objects)
            /\ Len(BindPrivateLinesOf(out)) = Len(objects)
            /\ \A i \in 1..Len(objects) :
                  /\ HasSuffix(BindLinesOf(out)[i],
                        "Binding, binding_name, " \o LastValue(objects[i], "id") \o ") \\")
                  /\ HasSuffix(BindPrivateLinesOf(out)[i],
                        "Binding, binding_name, " \o LastValue(objects[i], "id") \o ") \\")

\* three widgets were declared and rendered in their order
C7_Witness ==
    /\ Written
    /\ Len(BoundObjects(doc)) = 3
    /\ FieldLines(Output) =
          <<"\tGtkButton *submit_btn;", "\tGtkLabel *b;", "\tGtkGrid *d;">>
    /\ Len(BindLinesOf(Output)) = 3

(***************************************************************************)
(* C8.  Each signal element contributes at most one entry: the value of    *)
(* its first handler attribute, nothing when it has none.  A written       *)
(* header has one registration line per recorded handler, in document      *)
(* order, and no callback macro at all when no handler was recorded.       *)
(***************************************************************************)
C8_FirstHandler ==
    LET signals == HandledSignals(doc)
    IN  /\ pc = "parse" =>
              signal_parser.user_data =
                  [i \in 1..Len(signals) |-> FirstValue(signals[i], "handler")]
        /\ Written =>
              /\ CallbackLinesOf(Output) =
                    [i \in 1..Len(signals) |->
                        "\t\tgtk_widget_class_bind_template_callback(GTK_WIDGET_CLASS(widget_class), "
                            \o FirstValue(signals[i], "handler") \o "); \\"]
              /\ signals = <<>> =>
                    /\ IndexOfLine(Output, "/* Signal Handlers */") = 0
                    /\ IndexOfSuffix(Output, "_view_binding_callback(widget_class) \\") = 0
              /\ signals # <<>> =>
                    IndexOfSuffix(Output, "_view_binding_callback(widget_class) \\") > 0

\* a signal with two handlers, a signal without one and a plain signal were
\* rendered
C8_Witness ==
    /\ Written
    /\ Len(doc) = 3
    /\ \A i \in 1..3 : doc[i].element_name = "signal"
    /\ Len(LinesWithPrefix(CallbackLinesOf(Output),
            "\t\tgtk_widget_class_bind_template_callback(GTK_WIDGET_CLASS(widget_class), on_first)")) = 1
    /\ Len(CallbackLinesOf(Output)) = 2

(***************************************************************************)
(* C9.  A parsed file without any object entry and any signal entry is     *)
(* written all the same, and its header is the header comment, the outer   *)
(* include guard, the shared macro block and the closing guard, without a  *)
(* struct and without a bind, bind-private or callback macro.              *)
(***************************************************************************)
C9_MinimalHeader ==
    (Written /\ BoundObjects(doc) = <<>> /\ HandledSignals(doc) = <<>>) =>
        LET out == Output
            guard == application_id \o "_" \o base_string(file_name) \o "_VIEW_BINDING_H_"
        IN  /\ out # NoFile
            /\ out = HeaderComment
                        \o <<"#ifndef " \o guard, "#define " \o guard, "">>
                        \o InsideUtils
                        \o <<"", "#endif /* " \o guard \o " */">>
            /\ IndexOfLine(out, "typedef struct {") = 0
            /\ \A i \in 1..Len(out) :
                  /\ ~HasSuffix(out[i], "_view_binding(widget_class, WidgetType, binding_name) \\")
                  /\ ~HasSuffix(out[i], "_view_binding_private(widget_class, WidgetType, binding_name) \\")
                  /\ ~HasSuffix(out[i], "_view_binding_callback(widget_class) \\")

\* a document of elements that record nothing was written
C9_Witness ==
    /\ Written
    /\ Len(doc) = 3
    /\ BoundObjects(doc) = <<>>
    /\ HandledSignals(doc) = <<>>
    /\ Len(Output) = 17

(***************************************************************************)
(* C10.  The base name of a file name is the file name up to its last      *)
(* '.', character by character and in order, with '-' turned into '_' and  *)
(* upper-case letters into lower-case ones; My-Window.ui gives my_window.  *)
(* The struct name is the base name with every '_' dropped and the first   *)
(* character after each '_' (and at the start) upper-cased, followed by    *)
(* Binding; my_window gives MyWindowBinding.                               *)
(***************************************************************************)
UpperLetters == "ABCDEFGHIJKLMNOPQRSTUVWXYZ"

LowerLetters == "abcdefghijklmnopqrstuvwxyz"

LowerOf(c) ==
    IF \E i \in 1..26 : Char(UpperLetters, i) = c
    THEN Char(LowerLetters, CHOOSE i \in 1..26 : Char(UpperLetters, i) = c)
    ELSE c

UpperOf(c) ==
    IF \E i \in 1..26 : Char(LowerLetters, i) = c
    THEN Char(UpperLetters, CHOOSE i \in 1..26 : Char(LowerLetters, i) = c)
    ELSE c

\* the struct name's characters from position i of base name b on
RECURSIVE PascalFrom(_, _)
PascalFrom(b, i) ==
    IF i > Len(b) THEN ""
    ELSE (IF Char(b, i) = "_" THEN ""
          ELSE IF i = 1 \/ Char(b, i - 1) = "_" THEN UpperOf(Char(b, i))
          ELSE Char(b, i))
         \o PascalFrom(b, i + 1)

BaseDerived == pc \in {"norm_struct", "norm_done"}

\* the part of C10 that holds of every file name
C10_NamesDerived ==
    /\ BaseDerived =>
          LET b == derived.base_string
          IN  /\ Len(b) = Len(file_name) - Len(".ui")
              /\ \A i \in 1..Len(b) :
                    Char(b, i) = (IF Char(file_name, i) = "-" THEN "_"
                                  ELSE LowerOf(Char(file_name, i)))
              /\ file_name = "My-Window.ui" => b = "my_window"
    /\ pc = "norm_done" =>
          /\ derived.struct_name = PascalFrom(derived.base_string, 1) \o "Binding"
          /\ derived.base_string = "my_window" => derived.struct_name = "MyWindowBinding"

\* C10 as claimed: on top of the above, deriving the base name of a base
\* name (strip from the last '.', replace, lower-case) returns it
\* unchanged; stated for the base names that have a '.', where the strip
\* is defined
C10_Idempotent ==
    /\ C10_NamesDerived
    /\ (BaseDerived /\ g_strrstr(derived.base_string, ".") > 0) =>
          base_string(derived.base_string) = derived.base_string

\* C10 as amended: on top of the above, the replace and lower-case steps
\* applied to a base name return it unchanged (the strip is applied once,
\* to the file name: a.a.ui gives a.a, and stripping a.a again gives a)
C10_ReplaceLowerIdempotent ==
    /\ C10_NamesDerived
    /\ BaseDerived =>
          /\ g_string_ascii_down(g_string_replace(derived.base_string, "-", "_"))
                = derived.base_string
          /\ \A i \in 1..Len(derived.base_string) :
                /\ Char(derived.base_string, i) # "-"
                /\ LowerOf(Char(derived.base_string, i)) = Char(derived.base_string, i)

C10_Witness ==
    /\ pc = "norm_done"
    /\ file_name = "My-Window.ui"
    /\ derived = [base_string |-> "my_window", struct_name |-> "MyWindowBinding"]

====
